---- MODULE Spec2Model ----
(***************************************************************************)
(* A model of src/stressweb.py: the PacketSender class, its batched        *)
(* asyncio dispatcher send_batch_async, one attempt                        *)
(* (send_single_packet_async), the statistics report print_stats and the   *)
(* command-line entry point main.                                          *)
(*                                                                         *)
(* One action is one run of the code between two suspension points of the  *)
(* dispatcher coroutine, cut further at statement boundaries where a claim *)
(* speaks about the order of the statements.  The attempts of a batch are  *)
(* asyncio tasks: they only run while the dispatcher is suspended in       *)
(* "await asyncio.gather(...)".                                            *)
(***************************************************************************)
EXTENDS Integers, Sequences, FiniteSets, TLC

\* ------------------------------------------------------------------ bounds
MaxPackets == 4      \* num_packets is drawn from 0..MaxPackets
MaxBatch == 3        \* batch_size is drawn from MinArg..MaxBatch
MaxConc == 2         \* concurrency is drawn from MinArg..MaxConc
MaxDuration == 1     \* end_time - start_time is drawn from 0..MaxDuration

\* The smallest integer given for --concurrency and --batch-size: argparse's
\* type=int accepts zero and negative numbers.
MinArg == 0 - 1

\* The value of a time stamp that has not been taken (None in the source).
NoTime == 0 - 1

VARIABLES
    entry,            \* "main": run from the command line; "api": PacketSender used directly
    pc,               \* position of the dispatcher
    error,            \* the exception that ended the run, "" when there is none
    method,           \* args.method, then self.method
    num_packets,      \* self.num_packets
    concurrency,      \* self.concurrency
    batch_size,       \* the batch_size argument of send_batch_async
    sent_packets,     \* self.sent_packets
    success_packets,  \* self.success_packets
    failed_packets,   \* self.failed_packets
    start_time,       \* self.start_time
    end_time,         \* self.end_time
    session,          \* the aiohttp.ClientSession: "none", "open", "closed"
    i,                \* the loop variable of line 71
    current_batch,    \* the local current_batch
    tasks,            \* attempt index -> the state of that attempt's task
    results,          \* the local results (the list gather returned)
    progress,         \* the progress lines printed, as <<sent, total>>
    stats,            \* the lines of the final report that were printed
    sizes,            \* history: the current_batch of every batch begun
    folds,            \* history: number of batches folded into the counters
    issued,           \* history: number of send_single_packet_async invocations started
    okCount,          \* history: number of attempts answered with a status < 400
    runs              \* history: number of dispatches begun on this PacketSender

vars == << entry, pc, error, method, num_packets, concurrency, batch_size,
           sent_packets, success_packets, failed_packets, start_time, end_time,
           session, i, current_batch, tasks, results, progress, stats,
           sizes, folds, issued, okCount, runs >>

\* ----------------------------------------------------------------- helpers
Min(a, b) == IF a < b THEN a ELSE b

Max(a, b) == IF a > b THEN a ELSE b

\* ceil(n / b) for n >= 0 and b > 0
Ceil(n, b) == (n + b - 1) \div b

RECURSIVE SumSeq(_)
SumSeq(s) == IF s = << >> THEN 0 ELSE Head(s) + SumSeq(Tail(s))

\* The attempts of a run are numbered 0 .. num_packets - 1 in creation order.
Idx == 0 .. (MaxPackets - 1)

\* ------------------------------------------------------------------ inputs
\* Strings given as the method: one in upper case, one in lower case, one that
\* is no supported method in either case.
Methods == {"GET", "post", "PUT"}

\* choices=["GET", "POST"] of the -m option
Choices == {"GET", "POST"}

\* str.upper() on the method strings of the model
Upper(m) == CASE m = "post" -> "POST"
              [] m = "get" -> "GET"
              [] OTHER -> m

\* Status codes a response can carry, on both sides of the 400 boundary.
Statuses == {200, 399, 400}

\* Exceptions of class Exception an attempt can meet (caught at line 60).
Caught == {"timeout", "transport"}

\* ------------------------------------------------------------- task states
\* st: "none" (not created), "created" (coroutine object made, not started),
\*     "waiting" (started, waiting for a connection slot of the connector),
\*     "active" (holds a connection, request on the wire),
\*     "done" (resolved), "released" (resolved and its batch's lists dropped).
\* kind/status: how the attempt ended; result: the Python value the task holds:
\*     "True", "False", "None" or "Exc" (an exception object).
Task(st, kind, status, result) ==
    [st |-> st, kind |-> kind, status |-> status, result |-> result]

NoTask == Task("none", "-", 0, "-")

CreatedTask == Task("created", "-", 0, "-")

ReleasedTask == Task("released", "-", 0, "-")

Unresolved == {"created", "waiting", "active"}

ActiveCount == Cardinality({a \in Idx : tasks[a].st = "active"})

\* send_single_packet_async invocations that have started and not yet resolved
StartedCount == Cardinality({a \in Idx : tasks[a].st \in {"waiting", "active"}})

\* attempts created and not yet resolved
PendingCount == Cardinality({a \in Idx : tasks[a].st \in Unresolved})

\* The attempts of the batch the dispatcher is working on.
Batch == {a \in Idx : i <= a /\ a < i + current_batch}

\* --------------------------------------------------------- pure functions
\* Variant: the slot test is off by one (a request is let in while the limit
\* is already reached).
Available_OffByOne == IF concurrency # 0 THEN concurrency - ActiveCount + 1 ELSE 1

\* The connector's free slots (TCPConnector(limit=self.concurrency)): a limit
\* of 0 is "no limit"; otherwise the limit less the connections in use, which
\* is never positive for a negative limit.
Available == IF concurrency # 0 THEN concurrency - ActiveCount ELSE 1

\* Variant: the boundary status 400 taken for a success.
Classify_Inclusive(status) == IF status <= 400 THEN "True" ELSE "False"

\* response.status < 400
Classify(status) == IF status < 400 THEN "True" ELSE "False"

\* Variant: the batch is not capped by batch_size.
CurrentBatch_Remaining == num_packets - i

\* min(batch_size, self.num_packets - i)
CurrentBatch == Min(batch_size, num_packets - i)

\* Variant: the loop bound is inclusive (one batch too many when batch_size
\* divides num_packets).
RangeHas_Inclusive == IF batch_size > 0 THEN i <= num_packets ELSE i >= num_packets

\* Whether range(0, self.num_packets, batch_size) yields the value i.
RangeHas == IF batch_size > 0 THEN i < num_packets ELSE i > num_packets

\* Variant: gather called without return_exceptions.
return_exceptions_Default == FALSE

\* return_exceptions=True of the gather call
return_exceptions == TRUE

\* sum(1 for r in results if r is True)
SuccessCount(rs) == Cardinality({k \in DOMAIN rs : rs[k] = "True"})

\* Variant: only the results that are False are counted as failures.
FailureCount_IsFalse(rs) == Cardinality({k \in DOMAIN rs : rs[k] = "False"})

\* sum(1 for r in results if r is not True)
FailureCount(rs) == Cardinality({k \in DOMAIN rs : rs[k] # "True"})

\* Variant: the wait returns when the first attempt of the batch has resolved.
GatherReady_First == \E a \in Batch : tasks[a].st = "done"

\* gather resumes its caller when every awaitable has a result; without
\* return_exceptions it resumes as soon as one of them raised.
GatherReady ==
    \/ \A a \in Batch : tasks[a].st = "done"
    \/ ~return_exceptions /\ \E a \in Batch : tasks[a].st = "done" /\ tasks[a].result = "Exc"

\* A ratio a / b as printed by the report, kept as the pair <<a, b>>.
Ratio(a, b) == << a, b >>

NoStats == [printed |-> 0, success_rate |-> Ratio(0, 1), failure_rate |-> Ratio(0, 1),
            packets_per_second |-> Ratio(0, 1)]

\* -------------------------------------------------------------------- Init
\* The state before the first step, for the ways of use in E: "main" (the
\* command line), "api" (a PacketSender made directly and dispatched with
\* send_batch_async), "threaded" (one dispatched with send_packets_threaded).
InitWith(E) ==
    /\ entry \in E
    /\ method \in Methods
    /\ num_packets \in 0 .. MaxPackets
    /\ concurrency \in MinArg .. MaxConc
    /\ batch_size \in MinArg .. MaxBatch
    /\ pc = "entry"
    /\ error = ""
    /\ sent_packets = 0
    /\ success_packets = 0
    /\ failed_packets = 0
    /\ start_time = NoTime
    /\ end_time = NoTime
    /\ session = "none"
    /\ i = 0
    /\ current_batch = 0
    /\ tasks = [a \in Idx |-> NoTask]
    /\ results = << >>
    /\ progress = << >>
    /\ stats = NoStats
    /\ sizes = << >>
    /\ folds = 0
    /\ issued = 0
    /\ okCount = 0
    /\ runs = 0

Init == InitWith({"main", "api"})

\* ------------------------------------------------------------ entry points
\* main, lines 103-110: parse_args exits with a usage error when the method is
\* not one of the choices; every integer is accepted for -n, -c and -b.
ParseArgs ==
    /\ pc = "entry"
    /\ entry = "main"
    /\ IF method \in Choices
         THEN pc' = "parsed" /\ error' = error
         ELSE pc' = "fault" /\ error' = "SystemExit"
    /\ UNCHANGED << entry, method, num_packets, concurrency, batch_size,
                    sent_packets, success_packets, failed_packets, start_time,
                    end_time, session, i, current_batch, tasks, results, progress,
                    stats, sizes, folds, issued, okCount, runs >>

\* PacketSender.__init__, lines 9-20, called by main (line 112) or directly.
Construct ==
    /\ \/ pc = "parsed"
       \/ pc = "entry" /\ entry \in {"api", "threaded"}
    /\ method' = Upper(method)
    /\ sent_packets' = 0
    /\ success_packets' = 0
    /\ failed_packets' = 0
    /\ start_time' = NoTime
    /\ end_time' = NoTime
    /\ pc' = "constructed"
    /\ UNCHANGED << entry, error, num_packets, concurrency, batch_size, session, i,
                    current_batch, tasks, results, progress, stats, sizes, folds, issued,
                    okCount, runs >>

\* -------------------------------------------------------- send_batch_async
\* lines 65-70: take the start time (the clock reads 0 at the first dispatch
\* and no less than the last end time at a later one), build the connector,
\* open the session.
Start ==
    /\ pc = "constructed"
    /\ entry \in {"main", "api"}
    /\ start_time' = Max(end_time, 0)
    /\ session' = "open"
    /\ runs' = runs + 1
    /\ pc' = "range"
    /\ UNCHANGED << entry, error, method, num_packets, concurrency, batch_size,
                    sent_packets, success_packets, failed_packets, end_time, i,
                    current_batch, tasks, results, progress, stats, sizes, folds, issued,
                    okCount >>

\* line 71, range(0, self.num_packets, batch_size): a step of zero raises
\* ValueError, which leaves the "async with" block and the coroutine.
ForRange ==
    /\ pc = "range"
    /\ IF batch_size = 0
         THEN pc' = "fault" /\ error' = "ValueError" /\ session' = "closed"
         ELSE pc' = "loop" /\ error' = error /\ session' = session
    /\ i' = 0
    /\ UNCHANGED << entry, method, num_packets, concurrency, batch_size,
                    sent_packets, success_packets, failed_packets, start_time,
                    end_time, current_batch, tasks, results, progress, stats, sizes, folds,
                    issued, okCount, runs >>

\* lines 71-74: the loop yields i; current_batch coroutine objects are made and
\* handed to gather.  The task list of the batch before is dropped (a task of
\* theirs that has not resolved stays with the event loop); results stays bound
\* to the list of the batch before until gather returns the next one.
NextBatch ==
    /\ pc = "loop"
    /\ RangeHas
    /\ current_batch' = CurrentBatch
    /\ tasks' = [a \in Idx |->
                   IF i <= a /\ a < i + CurrentBatch THEN CreatedTask
                   ELSE IF tasks[a].st = "done" THEN ReleasedTask
                   ELSE tasks[a]]
    /\ sizes' = Append(sizes, CurrentBatch)
    /\ pc' = "gather"
    /\ UNCHANGED << entry, error, method, num_packets, concurrency, batch_size,
                    sent_packets, success_packets, failed_packets, start_time,
                    end_time, session, i, results, progress, stats, folds, issued,
                    okCount, runs >>

\* line 71 exhausted, line 83: the loop ends and the session is closed.
ExitLoop ==
    /\ pc = "loop"
    /\ ~RangeHas
    /\ session' = "closed"
    /\ pc' = "finish"
    /\ UNCHANGED << entry, error, method, num_packets, concurrency, batch_size,
                    sent_packets, success_packets, failed_packets, start_time,
                    end_time, i, current_batch, tasks, results, progress, stats,
                    sizes, folds, issued, okCount, runs >>

\* ------------------------------------------------- send_single_packet_async
\* What every step of an attempt leaves alone.
AttemptFrame ==
    UNCHANGED << entry, pc, error, method, num_packets, concurrency, batch_size,
                 sent_packets, success_packets, failed_packets, start_time,
                 end_time, session, i, current_batch, results, progress, stats,
                 sizes, folds, runs >>

Resolve(a, kind, status, result) ==
    tasks' = [tasks EXCEPT ![a] = Task("done", kind, status, result)]

\* lines 53-58: the task is run for the first time.  With a method that is
\* neither GET nor POST no branch is taken and the coroutine returns None.
\* Otherwise the request asks the connector for a connection: it gets one when
\* a slot is free and waits for one when none is.
TaskRun(a) ==
    /\ pc = "gather"
    /\ tasks[a].st = "created"
    /\ issued' = issued + 1
    /\ IF method \in {"GET", "POST"}
         THEN tasks' = [tasks EXCEPT ![a].st =
                          IF Available > 0 THEN "active" ELSE "waiting"]
         ELSE Resolve(a, "nomethod", 0, "None")
    /\ okCount' = okCount
    /\ AttemptFrame

\* lines 55/58: a connection was released and the waiting request gets it.
Admit(a) ==
    /\ pc = "gather"
    /\ tasks[a].st = "waiting"
    /\ Available > 0
    /\ tasks' = [tasks EXCEPT ![a].st = "active"]
    /\ UNCHANGED << issued, okCount >>
    /\ AttemptFrame

\* lines 55-56, 58-59: a response arrives; the attempt returns status < 400.
Respond(a) ==
    /\ pc = "gather"
    /\ tasks[a].st = "active"
    /\ \E s \in Statuses :
         /\ Resolve(a, "response", s, Classify(s))
         /\ okCount' = IF s < 400 THEN okCount + 1 ELSE okCount
    /\ issued' = issued
    /\ AttemptFrame

\* lines 60-61: an Exception is caught and the attempt returns False.  The
\* timeout of 5 covers the wait for a connection too; a transport error needs a
\* connection.
Fail(a) ==
    /\ pc = "gather"
    /\ \E e \in Caught :
         /\ tasks[a].st \in (IF e = "timeout" THEN {"waiting", "active"} ELSE {"active"})
         /\ Resolve(a, e, 0, "False")
    /\ UNCHANGED << issued, okCount >>
    /\ AttemptFrame

\* line 60 catches Exception only: a BaseException (asyncio.CancelledError)
\* leaves the coroutine and ends the task with that exception.
Escape(a) ==
    /\ pc = "gather"
    /\ tasks[a].st \in {"waiting", "active"}
    /\ Resolve(a, "cancelled", 0, "Exc")
    /\ UNCHANGED << issued, okCount >>
    /\ AttemptFrame

\* ------------------------------------------------ send_batch_async, go on
\* line 74: gather resumes the dispatcher with the list of the tasks' values,
\* exceptions included; without return_exceptions it would raise the first
\* exception instead.
Gather ==
    /\ pc = "gather"
    /\ GatherReady
    /\ IF return_exceptions \/ \A a \in Batch : tasks[a].result # "Exc"
         THEN /\ results' = [k \in 1 .. current_batch |-> tasks[i + k - 1].result]
              /\ pc' = "fold"
              /\ error' = error
              /\ session' = session
         ELSE /\ results' = results
              /\ pc' = "fault"
              /\ error' = "AttemptError"
              /\ session' = "closed"
    /\ UNCHANGED << entry, method, num_packets, concurrency, batch_size,
                    sent_packets, success_packets, failed_packets, start_time,
                    end_time, i, current_batch, tasks, progress, stats, sizes, folds,
                    issued, okCount, runs >>

\* lines 76-78: the three counters, with no suspension between them.
Fold ==
    /\ pc = "fold"
    /\ sent_packets' = sent_packets + current_batch
    /\ success_packets' = success_packets + SuccessCount(results)
    /\ failed_packets' = failed_packets + FailureCount(results)
    /\ folds' = folds + 1
    /\ pc' = "report"
    /\ UNCHANGED << entry, error, method, num_packets, concurrency, batch_size,
                    start_time, end_time, session, i, current_batch, tasks, results,
                    progress, stats, sizes, issued, okCount, runs >>

\* Variant: the line reports the size of the batch, not the running count.
ProgressLine_Batch == << current_batch, num_packets >>

\* line 81: the values of the progress line, self.sent_packets and
\* self.num_packets
ProgressLine == << sent_packets, num_packets >>

\* lines 81-82: the progress line, whose percentage divides by num_packets;
\* then the loop steps to the next i.
Report ==
    /\ pc = "report"
    /\ IF num_packets = 0
         THEN /\ pc' = "fault"
              /\ error' = "ZeroDivisionError"
              /\ session' = "closed"
              /\ progress' = progress
              /\ i' = i
         ELSE /\ pc' = "loop"
              /\ error' = error
              /\ session' = session
              /\ progress' = Append(progress, ProgressLine)
              /\ i' = i + batch_size
    /\ UNCHANGED << entry, method, num_packets, concurrency, batch_size,
                    sent_packets, success_packets, failed_packets, start_time,
                    end_time, current_batch, tasks, results, stats, sizes, folds, issued,
                    okCount, runs >>

\* line 84: the end time; the clock may not have moved since the start.
Finish ==
    /\ pc = "finish"
    /\ \E d \in 0 .. MaxDuration : end_time' = start_time + d
    /\ pc' = "stats"
    /\ UNCHANGED << entry, error, method, num_packets, concurrency, batch_size,
                    sent_packets, success_packets, failed_packets, start_time,
                    session, i, current_batch, tasks, results, progress, stats,
                    sizes, folds, issued, okCount, runs >>

\* -------------------------------------------------------------- print_stats
\* duration and packets_per_second of lines 89-90
Duration == end_time - start_time

PacketsPerSecond == IF Duration > 0 THEN Ratio(sent_packets, Duration) ELSE Ratio(0, 1)

\* lines 87-99.  Lines 92-94 are printed; line 95 divides by sent_packets and
\* raises ZeroDivisionError when it is 0, before any rate is printed.
PrintStats ==
    /\ pc = "stats"
    /\ IF sent_packets = 0
         THEN /\ stats' = [NoStats EXCEPT !.printed = 3]
              /\ pc' = "fault"
              /\ error' = "ZeroDivisionError"
         ELSE /\ stats' = [printed |-> 8,
                           success_rate |-> Ratio(success_packets * 100, sent_packets),
                           failure_rate |-> Ratio(failed_packets * 100, sent_packets),
                           packets_per_second |-> PacketsPerSecond]
              /\ pc' = "done"
              /\ error' = error
    /\ UNCHANGED << entry, method, num_packets, concurrency, batch_size,
                    sent_packets, success_packets, failed_packets, start_time,
                    end_time, session, i, current_batch, tasks, results, progress,
                    sizes, folds, issued, okCount, runs >>

\* ----------------------------------------------------------- specification
Next ==
    \/ ParseArgs
    \/ Construct
    \/ Start
    \/ ForRange
    \/ NextBatch
    \/ ExitLoop
    \/ \E a \in Idx : TaskRun(a)
    \/ \E a \in Idx : Admit(a)
    \/ \E a \in Idx : Respond(a)
    \/ \E a \in Idx : Fail(a)
    \/ \E a \in Idx : Escape(a)
    \/ Gather
    \/ Fold
    \/ Report
    \/ Finish
    \/ PrintStats

Spec == Init /\ [][Next]_vars

\* The event loop runs every task that can run, and every request ends at the
\* latest by its timeout: no step that can be taken is put off for ever.
FairSpec == Spec /\ WF_vars(Next)

\* ------------------------------------------------ a second dispatch
\* A PacketSender used directly is dispatched at most MaxRuns times.
MaxRuns == 2

\* send_batch_async is called again on the same PacketSender after a run that
\* completed (line 63): the locals of the call before are gone, the fields of
\* the object are as that run left them.
Rerun ==
    /\ pc = "done"
    /\ entry = "api"
    /\ runs < MaxRuns
    /\ pc' = "constructed"
    /\ i' = 0
    /\ current_batch' = 0
    /\ tasks' = [a \in Idx |-> NoTask]
    /\ results' = << >>
    /\ UNCHANGED << entry, error, method, num_packets, concurrency, batch_size,
                    sent_packets, success_packets, failed_packets, start_time,
                    end_time, session, progress, stats, sizes, folds, issued,
                    okCount, runs >>

NextRerun == Next \/ Rerun

RerunSpec == Init /\ [][NextRerun]_vars

\* ----------------------------------------------------------- cancellation
\* The task running send_batch_async is cancelled while it is suspended in the
\* gather of line 74, the one place where the loop of lines 71-82 suspends: gather cancels the attempts that have not resolved (one
\* that was never started does not run at all), and CancelledError is raised
\* at line 74; it leaves the loop, closes the session and leaves the coroutine:
\* lines 76-85 are not run.
Cancel ==
    /\ pc = "gather"
    /\ tasks' = [a \in Idx |->
                   IF tasks[a].st \in Unresolved
                     THEN Task("done", "cancelled", 0, "Exc")
                     ELSE tasks[a]]
    /\ session' = "closed"
    /\ pc' = "fault"
    /\ error' = "CancelledError"
    /\ UNCHANGED << entry, method, num_packets, concurrency, batch_size,
                    sent_packets, success_packets, failed_packets, start_time,
                    end_time, i, current_batch, results, progress, stats, sizes,
                    folds, issued, okCount, runs >>

NextCancel == Next \/ Cancel

CancelSpec == Init /\ [][NextCancel]_vars

\* ------------------------------------------------- a failing progress print
\* lines 81-82: print raises (OSError, the output being closed or broken).
\* Nothing catches it: it leaves the loop, closes the session and leaves the
\* coroutine.
ReportFail ==
    /\ pc = "report"
    /\ pc' = "fault"
    /\ error' = "OSError"
    /\ session' = "closed"
    /\ UNCHANGED << entry, method, num_packets, concurrency, batch_size,
                    sent_packets, success_packets, failed_packets, start_time,
                    end_time, i, current_batch, tasks, results, progress, stats,
                    sizes, folds, issued, okCount, runs >>

NextReport == Next \/ ReportFail

ReportSpec == Init /\ [][NextReport]_vars

\* ---------------------------------------------------- send_packets_threaded
\* A worker thread of ThreadPoolExecutor(max_workers=self.concurrency) is idle
\* or can still be spawned.
WorkerFree == ActiveCount < concurrency

\* lines 38-43: the start time; ThreadPoolExecutor raises ValueError for
\* max_workers <= 0; executor.map submits one call per packet at once.
StartThreaded ==
    /\ pc = "constructed"
    /\ entry = "threaded"
    /\ start_time' = Max(end_time, 0)
    /\ runs' = runs + 1
    /\ IF concurrency <= 0
         THEN /\ pc' = "fault"
              /\ error' = "ValueError"
              /\ tasks' = tasks
         ELSE /\ pc' = "map"
              /\ error' = error
              /\ tasks' = [a \in Idx |-> IF a < num_packets THEN CreatedTask ELSE NoTask]
    /\ UNCHANGED << entry, method, num_packets, concurrency, batch_size,
                    sent_packets, success_packets, failed_packets, end_time,
                    session, i, current_batch, results, progress, stats, sizes,
                    folds, issued, okCount >>

\* What a step of a worker thread leaves alone.
WorkerFrame ==
    UNCHANGED << entry, pc, error, method, num_packets, concurrency, batch_size,
                 sent_packets, success_packets, failed_packets, start_time,
                 end_time, session, i, current_batch, results, progress, stats,
                 sizes, folds, runs >>

\* send_single_packet, lines 24-28: a worker takes the call.  With a method
\* that is neither GET nor POST response is never bound: line 30 raises
\* UnboundLocalError, caught at line 33, and the call returns False.
WorkerRun(a) ==
    /\ pc = "map"
    /\ tasks[a].st = "created"
    /\ WorkerFree
    /\ issued' = issued + 1
    /\ IF method \in {"GET", "POST"}
         THEN tasks' = [tasks EXCEPT ![a].st = "active"]
         ELSE Resolve(a, "nomethod", 0, "False")
    /\ okCount' = okCount
    /\ WorkerFrame

\* lines 30-32: a response arrives; True when status_code < 400, else False.
WorkerRespond(a) ==
    /\ pc = "map"
    /\ tasks[a].st = "active"
    /\ \E s \in Statuses :
         /\ Resolve(a, "response", s, Classify(s))
         /\ okCount' = IF s < 400 THEN okCount + 1 ELSE okCount
    /\ issued' = issued
    /\ WorkerFrame

\* lines 33-34: an Exception (timeout, transport error) is caught: False.
WorkerFail(a) ==
    /\ pc = "map"
    /\ tasks[a].st = "active"
    /\ \E e \in Caught : Resolve(a, e, 0, "False")
    /\ UNCHANGED << issued, okCount >>
    /\ WorkerFrame

\* lines 43-48: list() has every result; the counters are assigned (not added
\* to) and the end time is taken.
Collect ==
    /\ pc = "map"
    /\ \A a \in Idx : a < num_packets => tasks[a].st = "done"
    /\ results' = [k \in 1 .. num_packets |-> tasks[k - 1].result]
    /\ sent_packets' = num_packets
    /\ success_packets' = SuccessCount(results')
    /\ failed_packets' = num_packets - SuccessCount(results')
    /\ \E d \in 0 .. MaxDuration : end_time' = start_time + d
    /\ pc' = "stats"
    /\ UNCHANGED << entry, error, method, num_packets, concurrency, batch_size,
                    start_time, session, i, current_batch, tasks, progress, stats,
                    sizes, folds, issued, okCount, runs >>

NextThread ==
    \/ Next
    \/ StartThreaded
    \/ \E a \in Idx : WorkerRun(a)
    \/ \E a \in Idx : WorkerRespond(a)
    \/ \E a \in Idx : WorkerFail(a)
    \/ Collect

InitThread == InitWith({"main", "api", "threaded"})

ThreadSpec == InitThread /\ [][NextThread]_vars

\* ================================================================== claims
\* A configuration RunConfig allows: positive concurrency and batch_size
\* (num_packets is never negative in this model).
ValidConfig == concurrency > 0 /\ batch_size > 0

\* The dispatch loop is over and the end time has been taken (line 84).
RunOver == end_time # NoTime

\* C1: with concurrency > 0 and batch_size > 0, once the run is over
\* sent_packets = success_packets + failed_packets and sent_packets =
\* num_packets, whatever each attempt produced.
C1_Accounting ==
    (ValidConfig /\ RunOver) =>
        /\ sent_packets = success_packets + failed_packets
        /\ sent_packets = num_packets

\* A run of several batches is over with successes and failures counted.
C1_Witness ==
    /\ ValidConfig
    /\ pc = "done"
    /\ Len(sizes) >= 2
    /\ success_packets >= 1
    /\ failed_packets >= 1

\* C2 as stated: for a valid configuration the invocations of
\* send_single_packet_async that have started and not yet resolved never
\* number more than min(concurrency, batch_size).
C2_StartedBounded ==
    ValidConfig => StartedCount <= Min(concurrency, batch_size)

\* C2 amended: the attempts that hold a connection never number more than the
\* current batch's size, which is at most batch_size, nor more than
\* concurrency when concurrency > 0; the invocations started and not yet
\* resolved (those waiting for a connection included) never number more than
\* the current batch's size.
C2_ActiveBounded ==
    /\ ActiveCount <= current_batch
    /\ StartedCount <= current_batch
    /\ current_batch <= Max(batch_size, 0)
    /\ concurrency > 0 => ActiveCount <= concurrency

\* Every slot is taken and a started attempt waits for one.
C2_Witness ==
    /\ concurrency > 0
    /\ ActiveCount = concurrency
    /\ StartedCount > concurrency

\* C3: an attempt that has not resolved belongs to the batch being awaited,
\* and every batch begun before that one has been folded; no batch is begun
\* before the one before it was folded.
C3_NoOverlap ==
    /\ Len(sizes) <= folds + 1
    /\ \A a \in Idx :
         tasks[a].st \in Unresolved =>
             /\ a \in Batch
             /\ pc = "gather"
             /\ folds = Len(sizes) - 1

\* An attempt of a later batch is in flight after an earlier batch was folded
\* and dropped.
C3_Witness ==
    /\ Len(sizes) >= 2
    /\ \E a \in Idx : tasks[a].st = "active"
    /\ \E a \in Idx : tasks[a].st = "released"

\* C4: a run with num_packets = 0 (and a valid configuration) that has
\* started ends with no batch run, all three counters 0 and the whole report
\* printed with rates and throughput 0, and with no division fault.
C4_EmptyRun ==
    (ValidConfig /\ num_packets = 0 /\ start_time # NoTime /\ pc \in {"done", "fault"}) =>
        /\ pc = "done"
        /\ error = ""
        /\ sizes = << >>
        /\ sent_packets = 0 /\ success_packets = 0 /\ failed_packets = 0
        /\ stats.printed = 8
        /\ stats.success_rate[1] = 0
        /\ stats.failure_rate[1] = 0
        /\ stats.packets_per_second[1] = 0

\* C5: with batch_size > 0 every batch but the last begun has size batch_size
\* and never more than ceil(num_packets / batch_size) batches are begun; when
\* the loop is over exactly that many were run, the last one has size
\* num_packets - batch_size * (count - 1), and the sizes sum to num_packets.
C5_Partition ==
    batch_size > 0 =>
        /\ \A k \in 1 .. (Len(sizes) - 1) : sizes[k] = batch_size
        /\ Len(sizes) <= Ceil(num_packets, batch_size)
        /\ (pc = "finish" \/ RunOver) =>
              /\ Len(sizes) = Ceil(num_packets, batch_size)
              /\ SumSeq(sizes) = num_packets
              /\ Len(sizes) > 0 =>
                    sizes[Len(sizes)] = num_packets - batch_size * (Len(sizes) - 1)

\* The loop is over after several batches, the last one smaller than the rest.
C5_Witness ==
    /\ pc = "finish"
    /\ Len(sizes) >= 2
    /\ sizes[Len(sizes)] < batch_size

\* C6: from a command line with an unsupported method, a non-positive
\* concurrency or a non-positive batch_size the run never starts: no start
\* time, no session, no batch, no report.
C6_Rejected ==
    (entry = "main" /\ (method \notin Choices \/ concurrency <= 0 \/ batch_size <= 0)) =>
        /\ start_time = NoTime
        /\ session = "none"
        /\ sizes = << >>
        /\ stats.printed = 0

\* C7: no attempt's exception reaches the dispatcher out of the batch wait,
\* and the fold counts every result of the batch, whatever its value, as one
\* success or one failure.
C7_NoPropagation ==
    [][ /\ error' # "AttemptError"
        /\ (pc = "fold" /\ pc' = "report") =>
              /\ Len(results) = current_batch
              /\ (success_packets' - success_packets) + (failed_packets' - failed_packets)
                    = Len(results)
              /\ success_packets' >= success_packets
              /\ failed_packets' >= failed_packets ]_vars

\* A batch whose results hold True, False and an exception object was folded.
C7_Witness ==
    /\ pc = "report"
    /\ \E k \in DOMAIN results : results[k] = "Exc"
    /\ \E k \in DOMAIN results : results[k] = "False"
    /\ \E k \in DOMAIN results : results[k] = "True"

\* The attempts of the current batch answered with a status below 400.
BatchOk == {a \in Batch : tasks[a].kind = "response" /\ tasks[a].status < 400}

\* C8: a resolved attempt holds True if and only if it was answered with a
\* status < 400; a status >= 400, a transport error and a timeout give False;
\* and the fold counts as successes exactly the attempts of the batch answered
\* with a status < 400, in whatever order they resolved.
C8_Classification ==
    /\ \A a \in Idx :
         tasks[a].st = "done" =>
             /\ tasks[a].result = "True"
                   <=> (tasks[a].kind = "response" /\ tasks[a].status < 400)
             /\ (tasks[a].kind = "response" /\ tasks[a].status >= 400)
                   => tasks[a].result = "False"
             /\ tasks[a].kind \in Caught => tasks[a].result = "False"
    /\ pc = "fold" =>
         /\ SuccessCount(results) = Cardinality(BatchOk)
         /\ FailureCount(results) = current_batch - Cardinality(BatchOk)

\* A batch resolved with a status on each side of 400 and a timeout.
C8_Witness ==
    /\ pc = "fold"
    /\ \E a \in Batch : tasks[a].kind = "response" /\ tasks[a].status = 399
    /\ \E a \in Batch : tasks[a].kind = "response" /\ tasks[a].status = 400
    /\ \E a \in Batch : tasks[a].kind = "timeout"

\* C9: when a run has completed, send_single_packet_async was invoked
\* num_packets times, success_packets is the number of attempts answered with
\* a status < 400 and failed_packets the number of all the others.
C9_CountedOnce ==
    pc = "done" =>
        /\ issued = num_packets
        /\ success_packets = okCount
        /\ failed_packets = issued - okCount

\* A run of several batches completed with both outcomes and an attempt that
\* ended with an exception object.
C9_Witness ==
    /\ pc = "done"
    /\ Len(sizes) >= 2
    /\ okCount >= 1
    /\ failed_packets >= 1
    /\ \E k \in DOMAIN results : results[k] = "Exc"

\* C10: a run with a valid configuration, once constructed, eventually
\* completes with the report printed; and a completed run in which no attempt
\* was answered with a status < 400 has success_packets = 0 and
\* failed_packets = num_packets.
C10_Completes ==
    /\ (ValidConfig /\ method \in Choices /\ pc = "constructed") ~> (pc = "done")
    /\ [](pc = "done" /\ okCount = 0 =>
             success_packets = 0 /\ failed_packets = num_packets)

\* The counters of RunStats.
counters == << sent_packets, success_packets, failed_packets >>

\* The sum of the sizes of the first k batches begun.
SentAfter(k) == SumSeq(SubSeq(sizes, 1, k))

\* C11: sent_packets = success_packets + failed_packets in every state, those
\* after a fold included; sent_packets never decreases, changes only in a fold
\* and grows there by exactly the size of the batch folded.
C11_SentMonotone ==
    /\ [](sent_packets = success_packets + failed_packets)
    /\ [][ /\ sent_packets' >= sent_packets
           /\ sent_packets' # sent_packets => pc = "fold"
           /\ (pc = "fold" /\ pc' = "report") =>
                 sent_packets' = sent_packets + sizes[Len(sizes)] ]_vars

\* The second batch of a run has been folded, with both outcomes counted.
C11_Witness ==
    /\ pc = "report"
    /\ folds >= 2
    /\ success_packets >= 1
    /\ failed_packets >= 1

\* C12: the k-th progress line carries the sum of the sizes of batches 1..k and
\* num_packets; the line of a batch is printed after its fold and before the
\* next batch is begun; when the loop is over there is one line per batch.
C12_ProgressPerBatch ==
    /\ \A k \in 1 .. Len(progress) : progress[k] = << SentAfter(k), num_packets >>
    /\ Len(progress) <= folds
    /\ folds <= Len(sizes)
    /\ pc \in {"gather", "fold"} => Len(progress) = Len(sizes) - 1 /\ folds = Len(sizes) - 1
    /\ pc = "report" => Len(progress) = Len(sizes) - 1 /\ folds = Len(sizes)
    /\ pc \in {"loop", "finish", "stats", "done"} =>
          Len(progress) = Len(sizes) /\ folds = Len(sizes)

\* The loop is over after three batches, each reported.
C12_Witness ==
    /\ pc = "finish"
    /\ Len(progress) >= 3
    /\ Len(sizes) = Len(progress)

\* C13: the counters are all 0 when a dispatch starts (lines 65-70 done), a
\* second dispatch on the same PacketSender included, and sent_packets =
\* num_packets once a dispatch with a valid configuration is over.
C13_EmptyAtStart ==
    /\ pc = "range" => counters = << 0, 0, 0 >>
    /\ (ValidConfig /\ pc \in {"stats", "done"}) => sent_packets = num_packets

\* C14: the counters change in the fold step only, and keep their values
\* while an attempt is created and not yet resolved.
C14_OnlyFoldWrites ==
    [][ /\ counters' # counters => (pc = "fold" /\ pc' = "report")
        /\ PendingCount > 0 => counters' = counters ]_vars

\* A later batch is in flight, some of it resolved, with the counters of the
\* batches before it.
C14_Witness ==
    /\ pc = "gather"
    /\ sent_packets > 0
    /\ StartedCount > 0
    /\ \E a \in Batch : tasks[a].st = "done"

\* C15: when the dispatch is cancelled at a suspension point, as in every
\* other state, sent_packets = success_packets + failed_packets and
\* sent_packets is the sum of the sizes of the batches that were folded; a
\* cancelled dispatch leaves the counters as the last fold left them.
C15_CancelSafe ==
    /\ sent_packets = success_packets + failed_packets
    /\ sent_packets = SentAfter(folds)
    /\ error = "CancelledError" =>
          /\ pc = "fault"
          /\ \A a \in Idx : tasks[a].st \notin Unresolved
          /\ folds = Len(sizes) - 1

\* The dispatch was cancelled while its second batch was awaited, with one of
\* its attempts resolved and not folded.
C15_Witness ==
    /\ error = "CancelledError"
    /\ folds >= 1
    /\ Len(sizes) = folds + 1
    /\ sent_packets >= 1
    /\ \E a \in Idx : tasks[a].st = "done" /\ tasks[a].kind = "response"

\* C16: whenever a dispatch that started has been left, normally or by
\* cancellation, with a valid configuration, end_time is set.
C16_Finalized ==
    (ValidConfig /\ start_time # NoTime /\ pc \in {"stats", "done", "fault"}) =>
        end_time # NoTime

\* The attempts whose task object is held: made and not yet dropped.
Held == {a \in Idx : tasks[a].st \in Unresolved \cup {"done"}}

\* C17 as stated: with batch_size > 0 the attempts created and not yet
\* resolved never number more than batch_size, and one batch's result
\* collection only is held at a time: while the attempts of a batch are
\* awaited, no list of results of another batch is held.
C17_OneCollection ==
    batch_size > 0 =>
        /\ PendingCount <= batch_size
        /\ (pc = "gather" /\ Held # {}) => results = << >>

\* C17 amended: the attempts created and not yet resolved never number more
\* than the current batch's size, which is at most batch_size; the tasks held
\* are those of the current batch only; the list results holds at most
\* batch_size values and, while a batch is awaited, it is still the list of
\* the batch before: two collections of at most batch_size each, for any
\* num_packets.
C17_BoundedHeld ==
    /\ PendingCount <= current_batch
    /\ current_batch <= Max(batch_size, 0)
    /\ Cardinality(Held) <= current_batch
    /\ pc \in {"gather", "fold", "report"} => Held \subseteq Batch
    /\ Len(results) <= Max(batch_size, 0)
    /\ pc = "gather" =>
          Len(results) = (IF Len(sizes) >= 2 THEN sizes[Len(sizes) - 1] ELSE 0)
    /\ pc \in {"fold", "report"} => Len(results) = current_batch

\* A full batch is pending while the list of results of the batch before is
\* still held.
C17_Witness ==
    /\ pc = "gather"
    /\ current_batch >= 2
    /\ PendingCount = current_batch
    /\ Len(results) = batch_size

\* C18: a dispatch with a valid configuration and num_packets > 0 that has
\* ended, whether or not a progress print failed on the way, has run and
\* folded all its batches: sent_packets = success_packets + failed_packets =
\* num_packets.
C18_ReporterIsolated ==
    (ValidConfig /\ num_packets > 0 /\ start_time # NoTime /\ pc \in {"done", "fault"}) =>
        /\ folds = Ceil(num_packets, batch_size)
        /\ sent_packets = success_packets + failed_packets
        /\ sent_packets = num_packets

\* C19: with num_packets > 0 and batch_size > 0, a fresh PacketSender that
\* was dispatched, by send_batch_async or by send_packets_threaded, ends
\* completed with the same counters for the same outcomes: sent_packets =
\* num_packets, success_packets = the number of attempts answered with a
\* status < 400, failed_packets = the number of the others; and the threaded
\* path never has more than concurrency attempts in flight.
C19_SameCounters ==
    /\ (/\ num_packets > 0
        /\ batch_size > 0
        /\ entry \in {"api", "threaded"}
        /\ start_time # NoTime
        /\ pc \in {"done", "fault"}) =>
           /\ pc = "done"
           /\ sent_packets = num_packets
           /\ success_packets = okCount
           /\ failed_packets = num_packets - okCount
    /\ (entry = "threaded" /\ StartedCount > 0) => StartedCount <= concurrency

\* The same with concurrency > 0 assumed.
C19_SameCountersValid == concurrency > 0 => C19_SameCounters

====
